---- MODULE Spec2Model ----
(***************************************************************************)
(* Call signalling of the two-party voice-call application (src/src/App.tsx).*)
(* Two browser instances (Devices) each run one App component.  The         *)
(* component state (useState / useRef) is kept per device; RTCPeerConnection,*)
(* MediaStream and setInterval objects are kept in per-device tables so     *)
(* that objects no longer referenced by a ref can still be observed.        *)
(* Asynchronous handlers (startCall, acceptCall) are split at their awaits; *)
(* every continuation carries the values its closure captured at the click. *)
(***************************************************************************)
EXTENDS Integers, Sequences, FiniteSets, TLC

\* ---------------------------------------------------------------- bounds
MaxPc == 2          \* peer connections (and audio streams) created in all
MaxPcDeep == 3      \* the same, in the failure-free runs of SpecDeep
MaxPcGlare == 4     \* the same, in the glare runs of SpecGlare
MaxDuration == 2    \* cap of the call-duration counter
MaxTimers == 2      \* intervals running at once per device
MaxIce == 2         \* ice candidates gathered in all
MaxPcAtSwitch == 1  \* Switch User is explored up to this many connections
MaxPcSwitch == 2    \* peer connections created in all, in the runs of SpecSwitch
MaxPcLive == 3      \* the same, in the fair runs of SpecLive

\* ------------------------------------------------------------- constants
Devices == {"d1", "d2"}
Roles == {"moo", "boo"}
null == "null"

\* the character each device's user picks on the selection screen
RoleOf(p) == IF p = "d1" THEN "moo" ELSE "boo"

Other(r) == IF r = "moo" THEN "boo" ELSE "moo"

NoSdp == [by |-> "none", k |-> 0, type |-> "none"]

NoCall == [from |-> null, to |-> null, action |-> "none",
           offer |-> NoSdp, answer |-> NoSdp, candidate |-> NoSdp]

CallData(from, to, action, offer, answer, candidate) ==
    [from |-> from, to |-> to, action |-> action,
     offer |-> offer, answer |-> answer, candidate |-> candidate]

Sdp(p, k, type) == [by |-> p, k |-> k, type |-> type]

VARIABLES
    userRole,           \* useState: 'moo' | 'boo' | null
    callState,          \* useState: idle | calling | ringing | active
    callDuration,       \* useState: seconds counted by the interval
    isConnected,        \* useState
    incomingCall,       \* useState: stored inbound call message or NoCall
    isMuted,            \* useState
    peerConnectionRef,  \* useRef: index into pcs[p], 0 = null
    localStreamRef,     \* useRef: index into streams[p], 0 = null
    callTimerRef,       \* useRef: TRUE when it holds an interval id
    pcs,                \* every RTCPeerConnection the device created
    streams,            \* every MediaStream the device acquired
    timers,             \* number of setInterval timers still running
    subCallState,       \* callState captured by the subscription's handler
    tasks,              \* suspended startCall / acceptCall continuations
    net,                \* broadcast messages in flight on 'voice-calls'
    ev,                 \* the last step taken
    out                 \* the messages the last step passed to sendSignal

vars == <<userRole, callState, callDuration, isConnected, incomingCall, isMuted,
          peerConnectionRef, localStreamRef, callTimerRef, pcs, streams, timers,
          subCallState, tasks, net, ev, out>>

\* ev records the delivery the last step made: the device, the message and
\* the device's phase before it; every other step leaves NoEvent
NoEvent == [type |-> "none", p |-> "none", msg |-> NoCall, was |-> "none"]

Event(type, p, msg) ==
    IF type = "deliver"
    THEN [type |-> type, p |-> p, msg |-> msg, was |-> callState[p]]
    ELSE NoEvent

Init ==
    /\ userRole = [p \in Devices |-> null]
    /\ callState = [p \in Devices |-> "idle"]
    /\ callDuration = [p \in Devices |-> 0]
    /\ isConnected = [p \in Devices |-> FALSE]
    /\ incomingCall = [p \in Devices |-> NoCall]
    /\ isMuted = [p \in Devices |-> FALSE]
    /\ peerConnectionRef = [p \in Devices |-> 0]
    /\ localStreamRef = [p \in Devices |-> 0]
    /\ callTimerRef = [p \in Devices |-> FALSE]
    /\ pcs = [p \in Devices |-> <<>>]
    /\ streams = [p \in Devices |-> <<>>]
    /\ timers = [p \in Devices |-> 0]
    /\ subCallState = [p \in Devices |-> "idle"]
    /\ tasks = [p \in Devices |-> <<>>]
    /\ net = {}
    /\ ev = NoEvent
    /\ out = <<>>

\* ------------------------------------------------------------ helpers
SeqToSet(s) == {s[i] : i \in 1..Len(s)}

RemoveAt(s, i) == [j \in 1..(Len(s) - 1) |-> IF j < i THEN s[j] ELSE s[j + 1]]

\* sendSignal: the messages of this step, rm = the message consumed by it
sendSignal(msgs, rm) ==
    /\ out' = msgs
    /\ net' = (net \ rm) \cup SeqToSet(msgs)

\* RTCPeerConnection.close()
ClosePc(ps, k) ==
    IF k = 0 THEN ps ELSE [ps EXCEPT ![k].closed = TRUE, ![k].conn = "closed"]

\* stream.getTracks().forEach(track => track.stop())
StopStream(ss, k) ==
    IF k = 0 THEN ss ELSE [ss EXCEPT ![k].stopped = TRUE]

\* ------------------------------------------------- handlers (App.tsx)
\* the other party of role r: userRole === 'moo' ? 'boo' : 'moo'
EndMsg(role) == CallData(role, Other(role), "end", NoSdp, NoSdp, NoSdp)

\* endCall without setIncomingCall(null)
endCallKeepsRequest(p, role, cs, ps, rm) ==
    /\ sendSignal(IF role # null /\ cs \in {"active", "calling"}
                  THEN <<EndMsg(role)>> ELSE <<>>, rm)
    /\ pcs' = [pcs EXCEPT ![p] = ClosePc(ps, peerConnectionRef[p])]
    /\ peerConnectionRef' = [peerConnectionRef EXCEPT ![p] = 0]
    /\ streams' = [streams EXCEPT ![p] = StopStream(@, localStreamRef[p])]
    /\ localStreamRef' = [localStreamRef EXCEPT ![p] = 0]
    /\ timers' = [timers EXCEPT ![p] = IF callTimerRef[p] THEN @ - 1 ELSE @]
    /\ callTimerRef' = [callTimerRef EXCEPT ![p] = FALSE]
    /\ callState' = [callState EXCEPT ![p] = "idle"]
    /\ callDuration' = [callDuration EXCEPT ![p] = 0]
    /\ isConnected' = [isConnected EXCEPT ![p] = FALSE]
    /\ isMuted' = [isMuted EXCEPT ![p] = FALSE]
    /\ UNCHANGED incomingCall

\* endCall as seen by a closure that captured userRole = role and
\* callState = cs; ps is the device's connection table before the cleanup,
\* rm the inbound message this step consumed.
endCall(p, role, cs, ps, rm) ==
    /\ sendSignal(IF role # null /\ cs \in {"active", "calling"}
                  THEN <<EndMsg(role)>> ELSE <<>>, rm)
    /\ pcs' = [pcs EXCEPT ![p] = ClosePc(ps, peerConnectionRef[p])]
    /\ peerConnectionRef' = [peerConnectionRef EXCEPT ![p] = 0]
    /\ streams' = [streams EXCEPT ![p] = StopStream(@, localStreamRef[p])]
    /\ localStreamRef' = [localStreamRef EXCEPT ![p] = 0]
    /\ timers' = [timers EXCEPT ![p] = IF callTimerRef[p] THEN @ - 1 ELSE @]
    /\ callTimerRef' = [callTimerRef EXCEPT ![p] = FALSE]
    /\ callState' = [callState EXCEPT ![p] = "idle"]
    /\ callDuration' = [callDuration EXCEPT ![p] = 0]
    /\ isConnected' = [isConnected EXCEPT ![p] = FALSE]
    /\ incomingCall' = [incomingCall EXCEPT ![p] = NoCall]
    /\ isMuted' = [isMuted EXCEPT ![p] = FALSE]

\* rejectCall without setCallState('idle')
rejectCallKeepsPhase(p, role, inc) ==
    /\ sendSignal(<<CallData(role, inc.from, "reject", NoSdp, NoSdp, NoSdp)>>, {})
    /\ incomingCall' = [incomingCall EXCEPT ![p] = NoCall]
    /\ UNCHANGED callState

\* rejectCall as seen by a closure that captured userRole = role and
\* incomingCall = inc (both non-null: the callers checked the guard)
rejectCall(p, role, inc) ==
    /\ sendSignal(<<CallData(role, inc.from, "reject", NoSdp, NoSdp, NoSdp)>>, {})
    /\ incomingCall' = [incomingCall EXCEPT ![p] = NoCall]
    /\ callState' = [callState EXCEPT ![p] = "idle"]

\* startCallTimer
startCallTimer(p) ==
    /\ callDuration' = [callDuration EXCEPT ![p] = 0]
    /\ timers' = [timers EXCEPT ![p] = @ + 1]
    /\ callTimerRef' = [callTimerRef EXCEPT ![p] = TRUE]

\* what the conditionally rendered buttons offer
CanStartCall(p) == userRole[p] # null /\ callState[p] = "idle"
CanSwitchUser(p) == userRole[p] # null /\ callState[p] = "idle"
CanEndCall(p) == userRole[p] # null /\ callState[p] \in {"calling", "active"}
CanAnswer(p) ==
    userRole[p] # null /\ callState[p] = "ringing" /\ incomingCall[p] # NoCall
CanToggleMute(p) == userRole[p] # null /\ callState[p] = "active"

\* ---------------------------------------------------------- user actions
\* character selection: setUserRole(r), then the effect subscribes with the
\* handler of that render
SelectRole(p, r) ==
    /\ userRole[p] = null
    /\ r = RoleOf(p)
    /\ userRole' = [userRole EXCEPT ![p] = r]
    /\ subCallState' = [subCallState EXCEPT ![p] = callState[p]]
    /\ ev' = Event("selectRole", p, NoCall)
    /\ out' = <<>>
    /\ UNCHANGED <<callState, callDuration, isConnected, incomingCall, isMuted,
                   peerConnectionRef, localStreamRef, callTimerRef, pcs, streams,
                   timers, tasks, net>>

\* character selection with either card: setUserRole('moo' | 'boo')
SelectRoleAny(p, r) ==
    /\ userRole[p] = null
    /\ r \in Roles
    /\ userRole' = [userRole EXCEPT ![p] = r]
    /\ subCallState' = [subCallState EXCEPT ![p] = callState[p]]
    /\ ev' = Event("selectRole", p, NoCall)
    /\ out' = <<>>
    /\ UNCHANGED <<callState, callDuration, isConnected, incomingCall, isMuted,
                   peerConnectionRef, localStreamRef, callTimerRef, pcs, streams,
                   timers, tasks, net>>

\* Switch User: setUserRole(null); the effect's cleanup unsubscribes
SwitchUser(p) ==
    /\ CanSwitchUser(p)
    /\ Len(pcs[p]) + Len(tasks[p]) <= MaxPcAtSwitch
    /\ userRole' = [userRole EXCEPT ![p] = null]
    /\ subCallState' = [subCallState EXCEPT ![p] = "idle"]
    /\ ev' = Event("switchUser", p, NoCall)
    /\ out' = <<>>
    /\ UNCHANGED <<callState, callDuration, isConnected, incomingCall, isMuted,
                   peerConnectionRef, localStreamRef, callTimerRef, pcs, streams,
                   timers, tasks, net>>

Task(kind, at, role, cs, inc, pc) ==
    [kind |-> kind, at |-> at, role |-> role, cs |-> cs, inc |-> inc, pc |-> pc]

\* sessions created or being created, over all devices
Sessions == Len(pcs["d1"]) + Len(tasks["d1"]) + Len(pcs["d2"]) + Len(tasks["d2"])

Budget(max) == Sessions < max

\* startCall that begins with setIncomingCall(null)
StartCallUpToClearsRequest(p, max) ==
    /\ CanStartCall(p)
    /\ Budget(max)
    /\ callState' = [callState EXCEPT ![p] = "calling"]
    /\ incomingCall' = [incomingCall EXCEPT ![p] = NoCall]
    /\ tasks' = [tasks EXCEPT ![p] =
          Append(@, Task("start", "getUserMedia", userRole[p], callState[p],
                         NoCall, 0))]
    /\ ev' = Event("startCall", p, NoCall)
    /\ out' = <<>>
    /\ UNCHANGED <<userRole, callDuration, isConnected, isMuted,
                   peerConnectionRef, localStreamRef, callTimerRef, pcs, streams,
                   timers, subCallState, net>>

\* startCall up to its first await (getUserMedia)
StartCallUpTo(p, max) ==
    /\ CanStartCall(p)
    /\ Budget(max)
    /\ callState' = [callState EXCEPT ![p] = "calling"]
    /\ tasks' = [tasks EXCEPT ![p] =
          Append(@, Task("start", "getUserMedia", userRole[p], callState[p],
                         incomingCall[p], 0))]
    /\ ev' = Event("startCall", p, NoCall)
    /\ out' = <<>>
    /\ UNCHANGED <<userRole, callDuration, isConnected, incomingCall, isMuted,
                   peerConnectionRef, localStreamRef, callTimerRef, pcs, streams,
                   timers, subCallState, net>>

\* acceptCall up to its first await (getUserMedia)
AcceptCallUpTo(p, max) ==
    /\ CanAnswer(p)
    /\ Budget(max)
    /\ tasks' = [tasks EXCEPT ![p] =
          Append(@, Task("accept", "getUserMedia", userRole[p], callState[p],
                         incomingCall[p], 0))]
    /\ ev' = Event("acceptCall", p, NoCall)
    /\ out' = <<>>
    /\ UNCHANGED <<userRole, callState, callDuration, isConnected, incomingCall,
                   isMuted, peerConnectionRef, localStreamRef, callTimerRef, pcs,
                   streams, timers, subCallState, net>>

StartCall(p) == StartCallUpTo(p, MaxPc)

AcceptCall(p) == AcceptCallUpTo(p, MaxPc)

RejectCall(p) ==
    /\ CanAnswer(p)
    /\ rejectCall(p, userRole[p], incomingCall[p])
    /\ ev' = Event("rejectCall", p, NoCall)
    /\ UNCHANGED <<userRole, callDuration, isConnected, isMuted,
                   peerConnectionRef, localStreamRef, callTimerRef, pcs, streams,
                   timers, subCallState, tasks>>

\* the Cancel / End Call button
EndCall(p) ==
    /\ CanEndCall(p)
    /\ endCall(p, userRole[p], callState[p], pcs[p], {})
    /\ ev' = Event("endCall", p, NoCall)
    /\ UNCHANGED <<userRole, subCallState, tasks>>

\* the body of toggleMute on the mute flag and the enabled flag of the
\* tracks: track.enabled = isMuted; setIsMuted(!isMuted)
toggleMute(m) == [enabled |-> m.isMuted, isMuted |-> ~m.isMuted]

\* the mute flag of p and the enabled flag of the tracks of localStreamRef
MuteState(p) ==
    [enabled |-> streams[p][localStreamRef[p]].enabled, isMuted |-> isMuted[p]]

ToggleMute(p) ==
    /\ CanToggleMute(p)
    /\ IF localStreamRef[p] # 0
       THEN /\ streams' = [streams EXCEPT ![p][localStreamRef[p]].enabled =
                                             toggleMute(MuteState(p)).enabled]
            /\ isMuted' = [isMuted EXCEPT ![p] = toggleMute(MuteState(p)).isMuted]
       ELSE UNCHANGED <<streams, isMuted>>
    /\ ev' = Event("toggleMute", p, NoCall)
    /\ out' = <<>>
    /\ UNCHANGED <<userRole, callState, callDuration, isConnected, incomingCall,
                   peerConnectionRef, localStreamRef, callTimerRef, pcs, timers,
                   subCallState, tasks, net>>

\* ------------------------------------------------ peer connections
\* new RTCPeerConnection(iceServers) with the callbacks of a closure that
\* captured userRole = role and callState = cs
NewPc(role, cs) ==
    [closed |-> FALSE, conn |-> "new", local |-> NoSdp, remote |-> NoSdp,
     cands |-> {}, gathered |-> FALSE, role |-> role, cs |-> cs]

\* a MediaStream returned by getUserMedia: live, tracks enabled
NewStream == [stopped |-> FALSE, enabled |-> TRUE]

\* setRemoteDescription(answer) is accepted in have-local-offer only
CanSetRemoteAnswer(pc) ==
    ~pc.closed /\ pc.local.type = "offer" /\ pc.remote = NoSdp

\* addIceCandidate needs a remote description
CanAddIceCandidate(pc) == ~pc.closed /\ pc.remote # NoSdp

\* the two ends hold each other's descriptions
Paired(a, b) ==
    /\ ~a.closed /\ ~b.closed
    /\ a.local # NoSdp /\ a.remote # NoSdp
    /\ a.local = b.remote /\ a.remote = b.local

\* --------------------------------------------------- inbound signals
\* handleIncomingSignal whose 'answer' case also calls setCallState('active')
handleIncomingSignalAnswerActivates(p, m) ==
    CASE m.action = "call" ->
            /\ incomingCall' = [incomingCall EXCEPT ![p] = m]
            /\ callState' = [callState EXCEPT ![p] = "ringing"]
            /\ sendSignal(<<>>, {m})
            /\ UNCHANGED <<callDuration, isConnected, isMuted, peerConnectionRef,
                           localStreamRef, callTimerRef, pcs, streams, timers>>
      [] m.action = "answer" ->
            /\ pcs' = IF /\ peerConnectionRef[p] # 0
                         /\ m.answer # NoSdp
                         /\ CanSetRemoteAnswer(pcs[p][peerConnectionRef[p]])
                      THEN [pcs EXCEPT ![p][peerConnectionRef[p]].remote = m.answer]
                      ELSE pcs
            /\ sendSignal(<<>>, {m})
            /\ callState' = [callState EXCEPT ![p] = "active"]
            /\ UNCHANGED <<callDuration, isConnected, incomingCall,
                           isMuted, peerConnectionRef, localStreamRef,
                           callTimerRef, streams, timers>>
      [] m.action \in {"reject", "end"} ->
            endCall(p, userRole[p], subCallState[p], pcs[p], {m})
      [] m.action = "ice-candidate" ->
            /\ pcs' = IF /\ peerConnectionRef[p] # 0
                         /\ m.candidate # NoSdp
                         /\ CanAddIceCandidate(pcs[p][peerConnectionRef[p]])
                      THEN [pcs EXCEPT ![p][peerConnectionRef[p]].cands =
                                            @ \cup {m.candidate}]
                      ELSE pcs
            /\ sendSignal(<<>>, {m})
            /\ UNCHANGED <<callState, callDuration, isConnected, incomingCall,
                           isMuted, peerConnectionRef, localStreamRef,
                           callTimerRef, streams, timers>>

handleIncomingSignal(p, m) ==
    CASE m.action = "call" ->
            /\ incomingCall' = [incomingCall EXCEPT ![p] = m]
            /\ callState' = [callState EXCEPT ![p] = "ringing"]
            /\ sendSignal(<<>>, {m})
            /\ UNCHANGED <<callDuration, isConnected, isMuted, peerConnectionRef,
                           localStreamRef, callTimerRef, pcs, streams, timers>>
      [] m.action = "answer" ->
            /\ pcs' = IF /\ peerConnectionRef[p] # 0
                         /\ m.answer # NoSdp
                         /\ CanSetRemoteAnswer(pcs[p][peerConnectionRef[p]])
                      THEN [pcs EXCEPT ![p][peerConnectionRef[p]].remote = m.answer]
                      ELSE pcs
            /\ sendSignal(<<>>, {m})
            /\ UNCHANGED <<callState, callDuration, isConnected, incomingCall,
                           isMuted, peerConnectionRef, localStreamRef,
                           callTimerRef, streams, timers>>
      [] m.action \in {"reject", "end"} ->
            endCall(p, userRole[p], subCallState[p], pcs[p], {m})
      [] m.action = "ice-candidate" ->
            /\ pcs' = IF /\ peerConnectionRef[p] # 0
                         /\ m.candidate # NoSdp
                         /\ CanAddIceCandidate(pcs[p][peerConnectionRef[p]])
                      THEN [pcs EXCEPT ![p][peerConnectionRef[p]].cands =
                                            @ \cup {m.candidate}]
                      ELSE pcs
            /\ sendSignal(<<>>, {m})
            /\ UNCHANGED <<callState, callDuration, isConnected, incomingCall,
                           isMuted, peerConnectionRef, localStreamRef,
                           callTimerRef, streams, timers>>

\* the callback without the test of callData.to
OnBroadcastUnfiltered(p, m) == handleIncomingSignal(p, m)

\* the 'broadcast' callback of the subscription: every subscriber sees every
\* message of the topic and keeps those addressed to its own role
OnBroadcast(p, m) ==
    IF m.to = userRole[p]
    THEN handleIncomingSignal(p, m)
    ELSE /\ out' = <<>>
         /\ UNCHANGED <<callState, callDuration, isConnected, incomingCall,
                        isMuted, peerConnectionRef, localStreamRef, callTimerRef,
                        pcs, streams, timers, net>>

Deliver(p, m) ==
    /\ userRole[p] # null
    /\ m \in net
    /\ OnBroadcast(p, m)
    /\ ev' = Event("deliver", p, m)
    /\ UNCHANGED <<userRole, subCallState, tasks>>

\* a subscription that outlives the identity: the effect without its cleanup
DeliverNoCleanup(p, m) ==
    /\ userRole[p] = null
    /\ m \in net
    /\ handleIncomingSignal(p, m)
    /\ ev' = Event("deliver", p, m)
    /\ UNCHANGED <<userRole, subCallState, tasks>>

\* a broadcast while the device has no identity: the effect returned early
\* or its cleanup has unsubscribed, so no callback of the component runs
DeliverUnsubscribed(p, m) ==
    /\ userRole[p] = null
    /\ m \in net
    /\ ev' = Event("deliver", p, m)
    /\ out' = <<>>
    /\ UNCHANGED <<userRole, callState, callDuration, isConnected, incomingCall,
                   isMuted, peerConnectionRef, localStreamRef, callTimerRef, pcs,
                   streams, timers, subCallState, tasks, net>>

\* ------------------------------------- continuations of startCall/acceptCall
\* the catch block of the handler the continuation t belongs to
Catch(p, t) ==
    IF t.kind = "start"
    THEN /\ callState' = [callState EXCEPT ![p] = "idle"]
         /\ sendSignal(<<>>, {})
         /\ UNCHANGED incomingCall
    ELSE rejectCall(p, t.role, t.inc)

\* await getUserMedia() settles; on success the stream is stored in
\* localStreamRef, the peer connection is created and stored, the tracks added
GetUserMediaDone(p, i, ok) ==
    LET t == tasks[p][i]
        k == Len(pcs[p]) + 1
    IN
    /\ t.at = "getUserMedia"
    /\ IF ok
       THEN /\ streams' = [streams EXCEPT ![p] = Append(@, NewStream)]
            /\ localStreamRef' = [localStreamRef EXCEPT ![p] = Len(streams[p]) + 1]
            /\ pcs' = [pcs EXCEPT ![p] = Append(@, NewPc(t.role, t.cs))]
            /\ peerConnectionRef' = [peerConnectionRef EXCEPT ![p] = k]
            /\ sendSignal(<<>>, {})
            /\ IF t.kind = "start"
               THEN /\ tasks' = [tasks EXCEPT ![p][i] =
                                   [t EXCEPT !.at = "createOffer", !.pc = k]]
                    /\ UNCHANGED incomingCall
               ELSE IF t.inc.offer # NoSdp
               THEN /\ tasks' = [tasks EXCEPT ![p][i] =
                                   [t EXCEPT !.at = "setRemoteDescription", !.pc = k]]
                    /\ UNCHANGED incomingCall
               ELSE /\ tasks' = [tasks EXCEPT ![p] = RemoveAt(@, i)]
                    /\ incomingCall' = [incomingCall EXCEPT ![p] = NoCall]
            /\ UNCHANGED callState
       ELSE /\ Catch(p, t)
            /\ tasks' = [tasks EXCEPT ![p] = RemoveAt(@, i)]
            /\ UNCHANGED <<streams, localStreamRef, pcs, peerConnectionRef>>
    /\ ev' = Event("getUserMedia", p, NoCall)
    /\ UNCHANGED <<userRole, callDuration, isConnected, isMuted, callTimerRef,
                   timers, subCallState>>

\* the awaits on the peer connection settle; a closed connection rejects.
\* createOffer / createAnswer and the setLocalDescription that follows are
\* one step: the first changes nothing any handler reads.
Negotiate(p, i, ok) ==
    LET t == tasks[p][i]
        pc == pcs[p][t.pc]
        good == ok /\ ~pc.closed
        next(at) == /\ tasks' = [tasks EXCEPT ![p][i] = [t EXCEPT !.at = at]]
                    /\ sendSignal(<<>>, {})
                    /\ UNCHANGED <<callState, incomingCall>>
        done == tasks' = [tasks EXCEPT ![p] = RemoveAt(@, i)]
    IN
    /\ t.at # "getUserMedia"
    /\ CASE ~good ->
              /\ Catch(p, t)
              /\ done
              /\ UNCHANGED pcs
         [] good /\ t.kind = "start" /\ t.at = "createOffer" ->
              /\ pcs' = [pcs EXCEPT ![p][t.pc].local = Sdp(p, t.pc, "offer")]
              /\ sendSignal(<<CallData(t.role, Other(t.role), "call",
                                       Sdp(p, t.pc, "offer"), NoSdp, NoSdp)>>, {})
              /\ done
              /\ UNCHANGED <<callState, incomingCall>>
         [] good /\ t.kind = "accept" /\ t.at = "setRemoteDescription" ->
              /\ pcs' = [pcs EXCEPT ![p][t.pc].remote = t.inc.offer]
              /\ next("createAnswer")
         [] good /\ t.kind = "accept" /\ t.at = "createAnswer" ->
              /\ pcs' = [pcs EXCEPT ![p][t.pc].local = Sdp(p, t.pc, "answer")]
              /\ sendSignal(<<CallData(t.role, t.inc.from, "answer",
                                       NoSdp, Sdp(p, t.pc, "answer"), NoSdp)>>, {})
              /\ incomingCall' = [incomingCall EXCEPT ![p] = NoCall]
              /\ done
              /\ UNCHANGED callState
    /\ ev' = Event("negotiate", p, NoCall)
    /\ UNCHANGED <<userRole, callDuration, isConnected, isMuted, peerConnectionRef,
                   localStreamRef, callTimerRef, streams, timers, subCallState>>

\* ------------------------------------------- peer connection callbacks
\* candidates gathered so far, over all devices
Gathered ==
    Cardinality({<<q, j>> \in Devices \X (1..(MaxPc + MaxPcDeep + MaxPcGlare)) :
                    j <= Len(pcs[q]) /\ pcs[q][j].gathered})

\* pc.onicecandidate: the connection found its local candidate
IceCandidate(p, k) ==
    LET pc == pcs[p][k] IN
    /\ ~pc.closed /\ pc.local # NoSdp /\ ~pc.gathered
    /\ Gathered < MaxIce
    /\ pcs' = [pcs EXCEPT ![p][k].gathered = TRUE]
    /\ sendSignal(IF pc.role # null
                  THEN <<CallData(pc.role, Other(pc.role), "ice-candidate",
                                  NoSdp, NoSdp, Sdp(p, k, "candidate"))>>
                  ELSE <<>>, {})
    /\ ev' = Event("icecandidate", p, NoCall)
    /\ UNCHANGED <<userRole, callState, callDuration, isConnected, incomingCall,
                   isMuted, peerConnectionRef, localStreamRef, callTimerRef,
                   streams, timers, subCallState, tasks>>

\* the 'connected' branch without startCallTimer()
ConnectedNoTimer(p, k) ==
    LET pc == pcs[p][k] IN
    /\ pc.conn \in {"new", "disconnected"}
    /\ \E q \in Devices \ {p} : \E j \in 1..Len(pcs[q]) : Paired(pc, pcs[q][j])
    /\ timers[p] < MaxTimers
    /\ pcs' = [pcs EXCEPT ![p][k].conn = "connected"]
    /\ isConnected' = [isConnected EXCEPT ![p] = TRUE]
    /\ callState' = [callState EXCEPT ![p] = "active"]
    /\ sendSignal(<<>>, {})
    /\ ev' = Event("connected", p, NoCall)
    /\ UNCHANGED <<userRole, incomingCall, isMuted, peerConnectionRef,
                   localStreamRef, streams, subCallState, tasks,
                   callDuration, timers, callTimerRef>>

\* pc.onconnectionstatechange with connectionState = 'connected'
Connected(p, k) ==
    LET pc == pcs[p][k] IN
    /\ pc.conn \in {"new", "disconnected"}
    /\ \E q \in Devices \ {p} : \E j \in 1..Len(pcs[q]) : Paired(pc, pcs[q][j])
    /\ timers[p] < MaxTimers
    /\ pcs' = [pcs EXCEPT ![p][k].conn = "connected"]
    /\ isConnected' = [isConnected EXCEPT ![p] = TRUE]
    /\ callState' = [callState EXCEPT ![p] = "active"]
    /\ startCallTimer(p)
    /\ sendSignal(<<>>, {})
    /\ ev' = Event("connected", p, NoCall)
    /\ UNCHANGED <<userRole, incomingCall, isMuted, peerConnectionRef,
                   localStreamRef, streams, subCallState, tasks>>

\* pc.onconnectionstatechange with connectionState = s, 'disconnected' or
\* 'failed'
TransportDown(p, k, s) ==
    LET pc == pcs[p][k] IN
    /\ ~pc.closed
    /\ \/ pc.conn = "connected"
       \/ s = "failed" /\ pc.conn \in {"new", "disconnected"} /\ pc.local # NoSdp
    /\ endCall(p, pc.role, pc.cs, [pcs[p] EXCEPT ![k].conn = s], {})
    /\ ev' = Event(s, p, NoCall)
    /\ UNCHANGED <<userRole, subCallState, tasks>>

\* one firing of a running interval: setCallDuration(prev => prev + 1)
Tick(p) ==
    /\ timers[p] > 0
    /\ callDuration[p] < MaxDuration
    /\ callDuration' = [callDuration EXCEPT ![p] = @ + 1]
    /\ ev' = Event("tick", p, NoCall)
    /\ out' = <<>>
    /\ UNCHANGED <<userRole, callState, isConnected, incomingCall, isMuted,
                   peerConnectionRef, localStreamRef, callTimerRef, pcs, streams,
                   timers, subCallState, tasks, net>>

Next ==
    \/ \E p \in Devices, r \in Roles : SelectRole(p, r)
    \/ \E p \in Devices : SwitchUser(p)
    \/ \E p \in Devices : StartCall(p)
    \/ \E p \in Devices : AcceptCall(p)
    \/ \E p \in Devices : RejectCall(p)
    \/ \E p \in Devices : EndCall(p)
    \/ \E p \in Devices : ToggleMute(p)
    \/ \E p \in Devices, m \in net : Deliver(p, m)
    \/ \E p \in Devices : \E i \in 1..Len(tasks[p]) : \E ok \in BOOLEAN :
          GetUserMediaDone(p, i, ok)
    \/ \E p \in Devices : \E i \in 1..Len(tasks[p]) : \E ok \in BOOLEAN :
          Negotiate(p, i, ok)
    \/ \E p \in Devices : \E k \in 1..Len(pcs[p]) : IceCandidate(p, k)
    \/ \E p \in Devices : \E k \in 1..Len(pcs[p]) : Connected(p, k)
    \/ \E p \in Devices : \E k \in 1..Len(pcs[p]) :
          \E s \in {"disconnected", "failed"} : TransportDown(p, k, s)
    \/ \E p \in Devices : Tick(p)

Spec == Init /\ [][Next]_vars

\* Runs in which no await fails and no candidate is signalled, explored one
\* session deeper.
NextDeep ==
    \/ \E p \in Devices, r \in Roles : SelectRole(p, r)
    \/ \E p \in Devices : StartCallUpTo(p, MaxPcDeep)
    \/ \E p \in Devices : AcceptCallUpTo(p, MaxPcDeep)
    \/ \E p \in Devices : RejectCall(p)
    \/ \E p \in Devices : EndCall(p)
    \/ \E p \in Devices, m \in net : Deliver(p, m)
    \/ \E p \in Devices : \E i \in 1..Len(tasks[p]) : GetUserMediaDone(p, i, TRUE)
    \/ \E p \in Devices : \E i \in 1..Len(tasks[p]) : Negotiate(p, i, TRUE)
    \/ \E p \in Devices : \E k \in 1..Len(pcs[p]) : Connected(p, k)
    \/ \E p \in Devices : Tick(p)

SpecDeep == Init /\ [][NextDeep]_vars

\* The runs of SpecDeep with the mute button.
NextMute ==
    \/ NextDeep
    \/ \E p \in Devices : ToggleMute(p)

SpecMute == Init /\ [][NextMute]_vars

\* Runs in which either character can be selected on either device and
\* broadcasts also reach a device without identity; no await fails.
NextSwitch ==
    \/ \E p \in Devices, r \in Roles : SelectRoleAny(p, r)
    \/ \E p \in Devices : SwitchUser(p)
    \/ \E p \in Devices : StartCallUpTo(p, MaxPcSwitch)
    \/ \E p \in Devices : AcceptCallUpTo(p, MaxPcSwitch)
    \/ \E p \in Devices : RejectCall(p)
    \/ \E p \in Devices : EndCall(p)
    \/ \E p \in Devices, m \in net : Deliver(p, m)
    \/ \E p \in Devices, m \in net : DeliverUnsubscribed(p, m)
    \/ \E p \in Devices : \E i \in 1..Len(tasks[p]) : GetUserMediaDone(p, i, TRUE)
    \/ \E p \in Devices : \E i \in 1..Len(tasks[p]) : Negotiate(p, i, TRUE)
    \/ \E p \in Devices : \E k \in 1..Len(pcs[p]) : Connected(p, k)

SpecSwitch == Init /\ [][NextSwitch]_vars

\* Scenario B (glare): each participant places one call, and no call-request
\* is processed before both calls have been placed; no await fails.
Placed(p) == Len(pcs[p]) + Len(tasks[p]) > 0

BothPlaced == \A p \in Devices : Placed(p)

NextGlare ==
    \/ \E p \in Devices, r \in Roles : SelectRole(p, r)
    \/ \E p \in Devices : ~Placed(p) /\ StartCallUpTo(p, MaxPcGlare)
    \/ \E p \in Devices : AcceptCallUpTo(p, MaxPcGlare)
    \/ \E p \in Devices : RejectCall(p)
    \/ \E p \in Devices : EndCall(p)
    \/ \E p \in Devices, m \in net :
          (m.action = "call" => BothPlaced) /\ Deliver(p, m)
    \/ \E p \in Devices : \E i \in 1..Len(tasks[p]) : GetUserMediaDone(p, i, TRUE)
    \/ \E p \in Devices : \E i \in 1..Len(tasks[p]) : Negotiate(p, i, TRUE)
    \/ \E p \in Devices : \E k \in 1..Len(pcs[p]) : Connected(p, k)

SpecGlare == Init /\ [][NextGlare]_vars

\* Runs in which each participant places at most one call and no await
\* fails, with fairness: every await settles, every transport that can
\* connect reports connected, the relay delivers every message to its
\* addressee, and a user who is offered Decline or Cancel / End Call for
\* good presses it.
NextLive ==
    \/ \E p \in Devices, r \in Roles : SelectRole(p, r)
    \/ \E p \in Devices : ~Placed(p) /\ StartCallUpTo(p, MaxPcLive)
    \/ \E p \in Devices : AcceptCallUpTo(p, MaxPcLive)
    \/ \E p \in Devices : RejectCall(p)
    \/ \E p \in Devices : EndCall(p)
    \/ \E p \in Devices, m \in net : Deliver(p, m)
    \/ \E p \in Devices : \E i \in 1..Len(tasks[p]) : GetUserMediaDone(p, i, TRUE)
    \/ \E p \in Devices : \E i \in 1..Len(tasks[p]) : Negotiate(p, i, TRUE)
    \/ \E p \in Devices : \E k \in 1..Len(pcs[p]) : Connected(p, k)

Fairness ==
    /\ WF_vars(\E p \in Devices, r \in Roles : SelectRole(p, r))
    /\ WF_vars(\E p \in Devices, m \in net : m.to = userRole[p] /\ Deliver(p, m))
    /\ WF_vars(\E p \in Devices : \E i \in 1..Len(tasks[p]) :
                  GetUserMediaDone(p, i, TRUE))
    /\ WF_vars(\E p \in Devices : \E i \in 1..Len(tasks[p]) :
                  Negotiate(p, i, TRUE))
    /\ WF_vars(\E p \in Devices : \E k \in 1..Len(pcs[p]) : Connected(p, k))
    /\ WF_vars(\E p \in Devices : RejectCall(p))
    /\ WF_vars(\E p \in Devices : EndCall(p))

SpecLive == Init /\ [][NextLive]_vars /\ Fairness

\* ===================================================================
\* Properties
\* ===================================================================
OpenPcs(p) == {k \in 1..Len(pcs[p]) : ~pcs[p][k].closed}

LiveStreams(p) == {k \in 1..Len(streams[p]) : ~streams[p][k].stopped}

\* the last step delivered a message of kind a, addressed to p, to p
Delivered(p, a) ==
    ev.type = "deliver" /\ ev.p = p /\ ev.msg.action = a /\ ev.msg.to = userRole[p]

\* the messages of kind a the last step sent
Sent(a) == {i \in 1..Len(out) : out[i].action = a}

\* C1: whenever the phase is idle the participant holds no peer session
\* (peerConnectionRef is null, every connection it created is closed) and no
\* live audio (localStreamRef is null, every acquired stream is stopped).
C1_IdleHoldsNothing ==
    \A p \in Devices :
        callState[p] = "idle" =>
            /\ peerConnectionRef[p] = 0 /\ OpenPcs(p) = {}
            /\ localStreamRef[p] = 0 /\ LiveStreams(p) = {}

\* C2: a participant never has more than one peer session that was created
\* and not yet closed.
C2_AtMostOneSession ==
    \A p \in Devices : Cardinality(OpenPcs(p)) <= 1

\* C3: a call-request delivered to its addressee while the phase is calling,
\* ringing or active is answered with one call-rejected to the sender, and
\* phase, stored request, peer session and timer stay as they were.
C3_BusyAutoReject ==
    [][\A p \in Devices :
          (Delivered(p, "call")' /\ callState[p] # "idle") =>
              /\ out' = <<CallData(userRole[p], ev'.msg.from, "reject",
                                   NoSdp, NoSdp, NoSdp)>>
              /\ callState'[p] = callState[p]
              /\ incomingCall'[p] = incomingCall[p]
              /\ peerConnectionRef'[p] = peerConnectionRef[p]
              /\ pcs'[p] = pcs[p]
              /\ callTimerRef'[p] = callTimerRef[p]
              /\ timers'[p] = timers[p]]_vars

\* C4: delivering a broadcast message whose 'to' is not the local identity
\* changes nothing of the local call state, in any phase and for any message
\* kind, and sends nothing.
C4_NotAddressedIsNoOp ==
    [][\A p \in Devices :
          (ev'.type = "deliver" /\ ev'.p = p /\ ev'.msg.to # userRole[p]) =>
              /\ out' = <<>>
              /\ net' = net
              /\ callState'[p] = callState[p]
              /\ incomingCall'[p] = incomingCall[p]
              /\ callDuration'[p] = callDuration[p]
              /\ isMuted'[p] = isMuted[p]
              /\ isConnected'[p] = isConnected[p]
              /\ peerConnectionRef'[p] = peerConnectionRef[p]
              /\ pcs'[p] = pcs[p]
              /\ localStreamRef'[p] = localStreamRef[p]
              /\ streams'[p] = streams[p]
              /\ callTimerRef'[p] = callTimerRef[p]
              /\ timers'[p] = timers[p]]_vars

\* a message not addressed to the device was delivered to it while it was in
\* a call, and it was an ice-candidate
C4_Witness ==
    \E p \in Devices :
        /\ ev.type = "deliver" /\ ev.p = p /\ ev.msg.to # userRole[p]
        /\ ev.msg.action = "ice-candidate"
        /\ callState[p] = "active"

\* a continuation of startCall / acceptCall of p ran in this step
Resumed(p) == tasks'[p] # tasks[p] /\ Len(tasks'[p]) <= Len(tasks[p])

\* C5: when a suspended startCall / acceptCall resumes after the phase has
\* gone back to idle, its result is discarded: it sends no call-request and no
\* call-answer and leaves no peer session and no audio stream behind.
C5_StaleResumeDiscarded ==
    [][\A p \in Devices :
          (Resumed(p) /\ callState[p] = "idle") =>
              /\ Sent("call")' = {} /\ Sent("answer")' = {}
              /\ \A k \in 1..Len(pcs'[p]) : k > Len(pcs[p]) => pcs'[p][k].closed
              /\ \A k \in 1..Len(streams'[p]) :
                    k > Len(streams[p]) => streams'[p][k].stopped
              /\ callState'[p] = "idle"]_vars

\* the connection k of p reported 'connected' in this step
BecameConnected(p, k) ==
    /\ k <= Len(pcs[p])
    /\ pcs[p][k].conn # "connected"
    /\ pcs'[p][k].conn = "connected"

\* C7: in the happy path (call placed, request delivered and accepted, answer
\* delivered, both transports connected) a participant enters active exactly
\* when its transport reports connected, with duration 0 and the timer
\* started, and the duration then grows by exactly 1 per tick.
C7_HappyPath ==
    [][\A p \in Devices :
          /\ \A k \in 1..Len(pcs'[p]) :
                BecameConnected(p, k) =>
                    /\ callState'[p] = "active"
                    /\ callDuration'[p] = 0
                    /\ callTimerRef'[p] /\ timers'[p] >= 1
          /\ (callState[p] # "active" /\ callState'[p] = "active") =>
                /\ callDuration'[p] = 0
                /\ \E k \in 1..Len(pcs[p]) : BecameConnected(p, k)
          /\ callDuration'[p] # callDuration[p] =>
                \/ callDuration'[p] = callDuration[p] + 1 /\ timers[p] >= 1
                \/ callDuration'[p] = 0
          /\ (Delivered(p, "call")' /\ callState[p] = "idle") =>
                /\ callState'[p] = "ringing"
                /\ incomingCall'[p] = ev'.msg
          /\ (Delivered(p, "answer")' /\ callState[p] = "calling") =>
                /\ callState'[p] = "calling"
                /\ (peerConnectionRef[p] # 0
                     /\ CanSetRemoteAnswer(pcs[p][peerConnectionRef[p]])) =>
                       pcs'[p][peerConnectionRef[p]].remote = ev'.msg.answer]_vars

\* the end of scenario A: the callee stored the caller's request and accepted
\* it, the answer was applied, both transports are connected, both
\* participants are active, and the caller's timer has ticked once
C7_Witness ==
    /\ callState["d1"] = "active" /\ callState["d2"] = "active"
    /\ callDuration["d1"] = 1 /\ callDuration["d2"] = 0
    /\ Len(pcs["d1"]) = 1 /\ Len(pcs["d2"]) = 1
    /\ pcs["d1"][1].local.type = "offer"
    /\ Paired(pcs["d1"][1], pcs["d2"][1])
    /\ pcs["d1"][1].conn = "connected" /\ pcs["d2"][1].conn = "connected"
    /\ incomingCall["d2"] = NoCall

\* p has an acceptCall suspended at an await
Accepting(p) == \E i \in 1..Len(tasks[p]) : tasks[p][i].kind = "accept"

\* C8: a call-ended delivered to a participant that is ringing with a stored
\* request takes it to idle with the request cleared and sends neither a
\* call-answer nor a call-rejected; afterwards accept and reject are not
\* available, and an answer or a rejection is only ever sent for a request
\* that is stored or that an accept already in progress captured.
C8_CallerCancels ==
    [][\A p \in Devices :
          /\ (Delivered(p, "end")' /\ callState[p] = "ringing"
                /\ incomingCall[p] # NoCall) =>
                /\ callState'[p] = "idle"
                /\ incomingCall'[p] = NoCall
                /\ Sent("answer")' = {} /\ Sent("reject")' = {}
                /\ ~CanAnswer(p)'
          /\ (\E i \in Sent("answer")' \cup Sent("reject")' :
                    out'[i].from = RoleOf(p)) =>
                (incomingCall[p] # NoCall \/ Accepting(p))]_vars

\* the caller's call-ended reached a ringing callee that had not answered
C8_Witness ==
    \E p \in Devices :
        /\ Delivered(p, "end") /\ ev.was = "ringing"
        /\ callState[p] = "idle" /\ incomingCall[p] = NoCall
        /\ tasks[p] = <<>> /\ pcs[p] = <<>>
        /\ \E q \in Devices \ {p} : Len(pcs[q]) = 1 /\ pcs[q][1].closed
                                    /\ pcs[q][1].local.type = "offer"

\* C9: in every state with phase calling, ringing or active the user has a
\* local action (cancel, reject or end) that takes the participant to idle.
C9_NeverStuck ==
    \A p \in Devices :
        (userRole[p] # null /\ callState[p] # "idle") =>
            (CanEndCall(p) \/ CanAnswer(p))

\* C10: the timer runs exactly while the phase is active, and the duration
\* is above 0 only in phase active.
C10_TimerIffActive ==
    \A p \in Devices :
        /\ (timers[p] > 0) <=> (callState[p] = "active")
        /\ callTimerRef[p] <=> (callState[p] = "active")
        /\ callDuration[p] > 0 => callState[p] = "active"

\* nothing is in flight: no message, no suspended handler, no transport
\* about to report connected
Quiescent ==
    /\ net = {}
    /\ \A p \in Devices : tasks[p] = <<>>
    /\ \A p \in Devices : \A k \in 1..Len(pcs[p]) : ~ENABLED Connected(p, k)

\* C6: after a glare the system does not deadlock: once nothing is in flight
\* both participants are idle, or both are active, or a user still has a
\* local action; no participant is left in calling or ringing for good.
C6_GlareResolves ==
    (BothPlaced /\ Quiescent) =>
        \/ \A p \in Devices : callState[p] = "idle"
        \/ \A p \in Devices : callState[p] = "active"
        \/ \E p \in Devices : CanStartCall(p) \/ CanEndCall(p) \/ CanAnswer(p)

\* C11: the phase becomes active only in a step in which the connection held
\* by peerConnectionRef reports 'connected', never in a step that delivers a
\* message, and the phase before that step is calling or ringing.
C11_ActiveOnlyByOwnTransport ==
    [][\A p \in Devices :
          (callState[p] # "active" /\ callState'[p] = "active") =>
              /\ peerConnectionRef[p] # 0
              /\ BecameConnected(p, peerConnectionRef[p])
              /\ ev'.type # "deliver"
              /\ callState[p] \in {"calling", "ringing"}]_vars

\* the device holds the candidate c in one of its open connections
Retained(p, c) == \E k \in OpenPcs(p) : c \in pcs[p][k].cands

\* the candidate c was gathered by the connection that made the offer o
CandidateOfOffer(c, o) == o.type = "offer" /\ c.by = o.by /\ c.k = o.k

\* the candidate c was gathered by a connection that answered the offer o
CandidateOfAnswerTo(c, o) ==
    /\ c.by \in Devices /\ c.k \in 1..Len(pcs[c.by])
    /\ o.type = "offer" /\ pcs[c.by][c.k].remote = o

\* C12: an ice-candidate of the current call delivered to the callee while
\* it is ringing with the request still stored, or to the caller while its
\* offer is not yet answered, is not lost: the participant holds it.
C12_NoCandidateLost ==
    \A p \in Devices :
        Delivered(p, "ice-candidate") =>
            /\ (/\ ev.was = "ringing" /\ callState[p] = "ringing"
                /\ incomingCall[p] # NoCall
                /\ CandidateOfOffer(ev.msg.candidate, incomingCall[p].offer))
                  => Retained(p, ev.msg.candidate)
            /\ (/\ ev.was = "calling" /\ callState[p] = "calling"
                /\ peerConnectionRef[p] # 0
                /\ pcs[p][peerConnectionRef[p]].remote = NoSdp
                /\ CandidateOfAnswerTo(ev.msg.candidate,
                                       pcs[p][peerConnectionRef[p]].local))
                  => Retained(p, ev.msg.candidate)

\* the cleanup of endCall took place in this step: the connection and the
\* stream the refs held are closed and stopped, the refs are null, the phase
\* is idle
TornDown(p) ==
    /\ callState'[p] = "idle"
    /\ peerConnectionRef'[p] = 0 /\ localStreamRef'[p] = 0
    /\ peerConnectionRef[p] # 0 => pcs'[p][peerConnectionRef[p]].closed
    /\ localStreamRef[p] # 0 => streams'[p][localStreamRef[p]].stopped

\* C13: the End Call button pressed in phase active sends exactly one
\* call-ended to the counterpart; a call-ended delivered in phase active or
\* calling sends no call-ended back; both close the peer session, release the
\* audio and leave the phase idle.
C13_EndNotifiesOnce ==
    [][\A p \in Devices :
          /\ (callState[p] = "active" /\ EndCall(p)) =>
                /\ out' = <<EndMsg(userRole[p])>>
                /\ TornDown(p)
          /\ (Delivered(p, "end")' /\ callState[p] \in {"active", "calling"}) =>
                /\ Sent("end")' = {}
                /\ TornDown(p)]_vars

\* C14: when the transport of an active call reports disconnected or failed
\* the participant sends a call-ended to the counterpart, closes the peer
\* session, releases the audio, stops the timer and becomes idle.
C14_TransportLossNotifies ==
    [][\A p \in Devices : \A k \in 1..Len(pcs[p]) :
          \A s \in {"disconnected", "failed"} :
              (/\ callState[p] = "active" /\ pcs[p][k].conn = "connected"
               /\ peerConnectionRef[p] = k
               /\ TransportDown(p, k, s)) =>
                  /\ out' = <<EndMsg(userRole[p])>>
                  /\ TornDown(p)
                  /\ ~callTimerRef'[p] /\ timers'[p] = 0
                  /\ callDuration'[p] = 0]_vars

\* C15: when getUserMedia fails in startCall the participant becomes idle,
\* sends no call-request and holds no peer session; when it fails in
\* acceptCall the participant sends exactly one call-rejected to the sender
\* of the request, clears the stored request and becomes idle.
C15_DeviceAccessFailure ==
    [][\A p \in Devices : \A i \in 1..Len(tasks[p]) :
          GetUserMediaDone(p, i, FALSE) =>
              IF tasks[p][i].kind = "start"
              THEN /\ callState'[p] = "idle"
                   /\ Sent("call")' = {}
                   /\ peerConnectionRef'[p] = 0
                   /\ OpenPcs(p)' = {}
              ELSE /\ out' = <<CallData(tasks[p][i].role, tasks[p][i].inc.from,
                                        "reject", NoSdp, NoSdp, NoSdp)>>
                   /\ incomingCall'[p] = NoCall
                   /\ callState'[p] = "idle"]_vars

\* C16: when createOffer, setRemoteDescription or createAnswer fails on a
\* connection that is still open, the counterpart is sent a call-ended, the
\* connection is closed, the stream acquired with it is stopped and the
\* participant becomes idle.
C16_NegotiationFailure ==
    [][\A p \in Devices : \A i \in 1..Len(tasks[p]) :
          (/\ tasks[p][i].at # "getUserMedia"
           /\ ~pcs[p][tasks[p][i].pc].closed
           /\ Negotiate(p, i, FALSE)) =>
              /\ out' = <<EndMsg(tasks[p][i].role)>>
              /\ pcs'[p][tasks[p][i].pc].closed
              /\ streams'[p][tasks[p][i].pc].stopped
              /\ peerConnectionRef'[p] = 0 /\ localStreamRef'[p] = 0
              /\ callState'[p] = "idle"]_vars

\* C17: whenever the phase is idle there is no stored request, the duration
\* is 0, the mute flag is false and no timer runs.
C17_IdleBaseline ==
    \A p \in Devices :
        callState[p] = "idle" =>
            /\ incomingCall[p] = NoCall
            /\ callDuration[p] = 0
            /\ ~isMuted[p]
            /\ ~callTimerRef[p] /\ timers[p] = 0

\* C18: a call-ended delivered to a participant whose phase is idle changes
\* nothing of its state and sends nothing.
C18_EndIsIdempotent ==
    [][\A p \in Devices :
          (Delivered(p, "end")' /\ callState[p] = "idle") =>
              /\ out' = <<>>
              /\ callState'[p] = callState[p]
              /\ incomingCall'[p] = incomingCall[p]
              /\ callDuration'[p] = callDuration[p]
              /\ isMuted'[p] = isMuted[p]
              /\ isConnected'[p] = isConnected[p]
              /\ peerConnectionRef'[p] = peerConnectionRef[p]
              /\ pcs'[p] = pcs[p]
              /\ localStreamRef'[p] = localStreamRef[p]
              /\ streams'[p] = streams[p]
              /\ callTimerRef'[p] = callTimerRef[p]
              /\ timers'[p] = timers[p]]_vars

\* C19: in phase active two presses of the mute button in succession restore
\* the mute flag and the enabled flag of the local audio tracks, and a press
\* sends nothing, keeps the phase and creates, closes or changes no
\* connection.
C19_MuteTwiceRestores ==
    [][\A p \in Devices :
          ToggleMute(p) =>
              /\ out' = <<>> /\ net' = net
              /\ callState' = callState
              /\ pcs' = pcs /\ peerConnectionRef' = peerConnectionRef
              /\ localStreamRef' = localStreamRef
              /\ localStreamRef[p] # 0 =>
                    /\ MuteState(p)' = toggleMute(MuteState(p))
                    /\ toggleMute(MuteState(p)') = MuteState(p)]_vars

\* a step of startCall of p: the click on Call, or one of its continuations
StartCallStep(p) ==
    \/ StartCall(p)
    \/ \E i \in 1..Len(tasks[p]) : \E ok \in BOOLEAN :
          /\ tasks[p][i].kind = "start"
          /\ GetUserMediaDone(p, i, ok) \/ Negotiate(p, i, ok)

\* C20: when Call is pressed while a call-request is stored and neither
\* accepted nor rejected, no step of startCall changes the stored request
\* (sender and offer stay), and the call-request startCall sends carries the
\* offer of the participant's own new connection, not the stored one.
C20_PlaceCallKeepsRequest ==
    [][\A p \in Devices :
          /\ StartCallStep(p) => incomingCall'[p] = incomingCall[p]
          /\ \A i \in Sent("call")' :
                out'[i].from = RoleOf(p) =>
                    /\ out'[i].offer.by = p
                    /\ out'[i].offer.type = "offer"
                    /\ out'[i].offer.k \in 1..Len(pcs'[p])
                    /\ pcs[p][out'[i].offer.k].local = NoSdp
                    /\ pcs'[p][out'[i].offer.k].local = out'[i].offer
                    /\ out'[i].offer # incomingCall'[p].offer]_vars

\* The participant had cancelled an earlier call (its call-ended is still in
\* flight), so the counterpart's request reached it in phase idle; Call was
\* pressed after the request had been stored (a delivery leaves the phase
\* ringing, only a later press makes it calling); the call-request just sent
\* carries the offer of the participant's connection while the stored request
\* still carries the counterpart's.
C20_Witness ==
    \E p \in Devices :
        /\ callState[p] = "calling"
        /\ EndMsg(RoleOf(p)) \in net
        /\ incomingCall[p].action = "call"
        /\ incomingCall[p].from = Other(RoleOf(p))
        /\ incomingCall[p].offer.type = "offer"
        /\ incomingCall[p].offer.by # p
        /\ peerConnectionRef[p] # 0
        /\ out = <<CallData(RoleOf(p), Other(RoleOf(p)), "call",
                            pcs[p][peerConnectionRef[p]].local, NoSdp, NoSdp)>>
        /\ pcs[p][peerConnectionRef[p]].local.by = p

\* nothing of the call state of p changes in this step
LocalUnchanged(p) ==
    /\ callState'[p] = callState[p]
    /\ incomingCall'[p] = incomingCall[p]
    /\ callDuration'[p] = callDuration[p]
    /\ isMuted'[p] = isMuted[p]
    /\ isConnected'[p] = isConnected[p]
    /\ peerConnectionRef'[p] = peerConnectionRef[p]
    /\ pcs'[p] = pcs[p]
    /\ localStreamRef'[p] = localStreamRef[p]
    /\ streams'[p] = streams[p]
    /\ callTimerRef'[p] = callTimerRef[p]
    /\ timers'[p] = timers[p]

\* C21: once Switch User has cleared the identity, a broadcast reaching the
\* device, addressed to the old identity or not, changes nothing and sends
\* nothing; after a character is selected again, a broadcast changes the
\* state or sends something only if it is addressed to the new identity.
C21_NoIdentityNoDelivery ==
    [][\A p \in Devices :
          (ev'.type = "deliver" /\ ev'.p = p) =>
              /\ userRole[p] = null =>
                    LocalUnchanged(p) /\ out' = <<>> /\ net' = net
              /\ (~LocalUnchanged(p) \/ out' # <<>> \/ net' # net) =>
                    ev'.msg.to = userRole[p]]_vars

\* the device placed a call under an identity, cleared the identity with
\* Switch User, and a call-request addressed to that old identity has just
\* reached it
C21_Witness ==
    \E p \in Devices :
        /\ userRole[p] = null
        /\ ev.type = "deliver" /\ ev.p = p /\ ev.msg.action = "call"
        /\ pcs[p] # <<>>
        /\ ev.msg.to = pcs[p][1].role
        /\ callState[p] = "idle" /\ incomingCall[p] = NoCall

\* C22: the Decline button pressed in phase ringing with a stored request
\* sends exactly one call-rejected to the sender of that request, clears the
\* request and leaves the phase idle; a call-rejected delivered to the caller
\* in phase calling closes its peer session, stops its audio and leaves the
\* phase idle.
C22_Rejection ==
    [][\A p \in Devices :
          /\ RejectCall(p) =>
                /\ callState[p] = "ringing" /\ incomingCall[p] # NoCall
                /\ out' = <<CallData(userRole[p], incomingCall[p].from, "reject",
                                     NoSdp, NoSdp, NoSdp)>>
                /\ out'[1].to = incomingCall[p].from
                /\ incomingCall'[p] = NoCall
                /\ callState'[p] = "idle"
          /\ (Delivered(p, "reject")' /\ callState[p] = "calling") =>
                /\ TornDown(p)
                /\ OpenPcs(p)' = OpenPcs(p) \ {peerConnectionRef[p]}
                /\ LiveStreams(p)' = LiveStreams(p) \ {localStreamRef[p]}]_vars

\* the callee declined the ringing call and its call-rejected reached the
\* caller in phase calling: the caller's connection is closed, its stream
\* stopped, both are idle
C22_Witness ==
    \E p \in Devices : \E q \in Devices \ {p} :
        /\ Delivered(p, "reject") /\ ev.was = "calling"
        /\ callState[p] = "idle" /\ callState[q] = "idle"
        /\ incomingCall[q] = NoCall /\ pcs[q] = <<>> /\ tasks[q] = <<>>
        /\ Len(pcs[p]) = 1 /\ pcs[p][1].closed /\ pcs[p][1].local.type = "offer"
        /\ Len(streams[p]) = 1 /\ streams[p][1].stopped
        /\ peerConnectionRef[p] = 0 /\ localStreamRef[p] = 0

\* C24: a call-answer or an ice-candidate delivered to its addressee changes
\* neither the phase nor the stored request, the duration or the mute flag,
\* whatever the phase; without a peer session it changes nothing at all and
\* sends nothing; a call-answer delivered in phase calling leaves the phase
\* calling.
C24_AnswerAndCandidateFrame ==
    [][\A p \in Devices :
          (Delivered(p, "answer")' \/ Delivered(p, "ice-candidate")') =>
              /\ callState'[p] = callState[p]
              /\ incomingCall'[p] = incomingCall[p]
              /\ callDuration'[p] = callDuration[p]
              /\ isMuted'[p] = isMuted[p]
              /\ out' = <<>>
              /\ peerConnectionRef[p] = 0 => LocalUnchanged(p)
              /\ peerConnectionRef[p] # 0 =>
                    \A k \in 1..Len(pcs[p]) :
                        k # peerConnectionRef[p] => pcs'[p][k] = pcs[p][k]]_vars

\* the callee's answer reached the caller in phase calling: the caller's
\* connection has it as remote description and the phase is still calling
C24_Witness ==
    \E p \in Devices :
        /\ Delivered(p, "answer") /\ ev.was = "calling"
        /\ callState[p] = "calling"
        /\ peerConnectionRef[p] # 0
        /\ pcs[p][peerConnectionRef[p]].remote = ev.msg.answer
        /\ pcs[p][peerConnectionRef[p]].conn = "new"

\* C25: whenever a local stream is held, the mute flag is true exactly when
\* the tracks of that stream are disabled (so it is false when a new stream,
\* whose tracks are enabled, has just been stored), and the mute flag is
\* true only if a stream is held.
C25_MuteFlagMatchesTracks ==
    \A p \in Devices :
        /\ localStreamRef[p] # 0 =>
              (isMuted[p] <=> ~streams[p][localStreamRef[p]].enabled)
        /\ isMuted[p] => localStreamRef[p] # 0

\* C26: a participant whose phase is idle sends nothing when a message is
\* delivered to it, and the handling of a delivered call-ended or
\* call-rejected sends at most one message.
C26_NoReplyStorm ==
    [][\A p \in Devices :
          /\ (ev'.type = "deliver" /\ ev'.p = p /\ callState[p] = "idle") =>
                out' = <<>>
          /\ (Delivered(p, "end")' \/ Delivered(p, "reject")') =>
                Len(out') <= 1]_vars

\* a call-ended is on its way: a participant has pressed Cancel / End Call
EndInFlight == \E m \in net : m.action = "end"

BothIdle == \A p \in Devices : callState[p] = "idle"

\* C23: once a participant has left calling or active by Cancel / End Call,
\* and the relay delivers the call-ended and no new call is placed, the
\* system reaches a state in which both participants are idle.
C23_BothReturnToIdle == EndInFlight ~> BothIdle

====
